---- MODULE Spec2Model ----
(***************************************************************************)
(* Model of the cdk-dashboard resource-discovery and dashboard-assembly    *)
(* pipeline: the CdkDashboard construct (src/src/index.ts), the            *)
(* DashboardAspect collector (src/src/dashboard/dashboard-aspect.ts), the  *)
(* MetricFactory and the six per-kind metric providers.                    *)
(*                                                                         *)
(* Durations are minutes.  A JavaScript value that is `undefined` is the   *)
(* string Undef; a construct is a record of the properties the type guards *)
(* and the providers read.                                                 *)
(***************************************************************************)
EXTENDS Integers, Sequences, FiniteSets, TLC

VARIABLES
    dydbTables,    \* CdkDashboard.dydbTables
    lambdas,       \* CdkDashboard.lambdas
    widgets,       \* CdkDashboard.widgets (custom widgets)
    queues,        \* CdkDashboard.queues
    apiMethods,    \* CdkDashboard.apiMethods
    apiGateways,   \* CdkDashboard.apiGateways
    snsTopics,     \* CdkDashboard.snsTopics
    rows,          \* CdkDashboard.dashboard.rows, one entry per addWidgets call
    phase,         \* traversal of the scope: "collecting", "complete", "aborted"
    lastOp,        \* the last CdkDashboard call, or the last generateDashboard call, and how it ended
    sinkWrites,    \* number of dashboard.addWidgets calls made by CdkDashboard
    aspect,        \* the DashboardAspect object and its dashboard
    call,          \* the last ServiceMetricProvider.createWidgets call
    pass,          \* repeated assembly passes over one snapshot
    traversal,     \* the construct-tree traversal that invokes the aspects
    cdkProps,      \* the props the CdkDashboard was constructed with
    factoryCall    \* the last MetricFactory call: its inputs and its outcome

vars == <<dydbTables, lambdas, widgets, queues, apiMethods, apiGateways,
          snsTopics, rows, phase, lastOp, sinkWrites, aspect, call, pass,
          traversal, cdkProps, factoryCall>>

cdkVars == <<dydbTables, lambdas, widgets, queues, apiMethods, apiGateways,
             snsTopics, rows, phase, lastOp, sinkWrites>>

-----------------------------------------------------------------------------
(* Bounds of the model.                                                    *)

MaxResources == 2
MaxCustom == 2
MaxAspectVisits == 2
MaxBatch == 2
MaxCalls == 2
MaxFaultAt == 2
MaxGenerateCalls == 2

-----------------------------------------------------------------------------
(* JavaScript values.                                                      *)

Undef == "undefined"

\* The truthiness of a string-or-undefined value, as `a || b` tests it.
Truthy(v) == v /= Undef /\ v /= ""

\* a || b
JsOr(a, b) == IF Truthy(a) THEN a ELSE b

RECURSIVE Flatten(_)
Flatten(ss) == IF ss = <<>> THEN <<>> ELSE Head(ss) \o Flatten(Tail(ss))

RECURSIVE SumLen(_)
SumLen(ss) == IF ss = <<>> THEN 0 ELSE Len(Head(ss)) + SumLen(Tail(ss))

-----------------------------------------------------------------------------
(* Constructs.  cls is the class the object was built from; the other      *)
(* fields are the properties the code reads, Undef when absent.            *)

PlainConstruct ==
    [cls |-> "Construct", functionName |-> Undef, functionArn |-> Undef,
     tableName |-> Undef, tableArn |-> Undef,
     queueName |-> Undef, queueArn |-> Undef, queueUrl |-> Undef,
     topicName |-> Undef, topicArn |-> Undef,
     restApiId |-> Undef, restApiName |-> Undef,
     httpMethod |-> Undef, resource |-> Undef, path |-> Undef,
     metricFns |-> {}, root |-> FALSE]

LambdaMetricFns ==
    {"metricInvocations", "metricDuration", "metricErrors", "metricThrottles"}

TableMetricFns ==
    {"metricConsumedReadCapacityUnits", "metricConsumedWriteCapacityUnits"}

MkFunction(name) ==
    [PlainConstruct EXCEPT !.cls = "Function", !.functionName = name,
        !.functionArn = "arn:" \o name, !.metricFns = LambdaMetricFns]

MkNodejsFunction(name) ==
    [MkFunction(name) EXCEPT !.cls = "NodejsFunction"]

MkTable(name) ==
    [PlainConstruct EXCEPT !.cls = "Table", !.tableName = name,
        !.tableArn = "arn:" \o name, !.metricFns = TableMetricFns]

MkQueue(name) ==
    [PlainConstruct EXCEPT !.cls = "Queue", !.queueName = name,
        !.queueArn = "arn:" \o name, !.queueUrl = "url:" \o name]

MkTopic(name) ==
    [PlainConstruct EXCEPT !.cls = "Topic", !.topicName = name,
        !.topicArn = "arn:" \o name]

MkRestApi(name) ==
    [PlainConstruct EXCEPT !.cls = "RestApi", !.restApiName = name,
        !.restApiId = "id:" \o name]

MkMethod(verb, p) ==
    [PlainConstruct EXCEPT !.cls = "Method", !.httpMethod = verb,
        !.resource = "resource", !.path = p]

\* A construct of no resource class that carries the properties of an
\* imported function and of an imported table at once.
MkDuck(fname, tname) ==
    [PlainConstruct EXCEPT !.functionName = fname, !.functionArn = "arn:" \o fname,
        !.tableName = tname, !.tableArn = "arn:" \o tname]

\* A construct of no resource class that carries the properties of an
\* imported topic and of an imported REST API at once.
MkTopicApiDuck(tname, aname) ==
    [PlainConstruct EXCEPT !.topicName = tname, !.topicArn = "arn:" \o tname,
        !.restApiId = "id-" \o aname, !.restApiName = aname]

\* The root of the construct tree (node.scope === undefined).
RootConstruct == [PlainConstruct EXCEPT !.cls = "App", !.root = TRUE]

\* A visited value that is no Construct at all.
NonConstruct == [PlainConstruct EXCEPT !.cls = "Object"]

-----------------------------------------------------------------------------
(* Type guards of index.ts.                                                *)

isLambdaFunction(node) ==
    \/ node.cls = "NodejsFunction"
    \/ node.cls \in {"Function", "NodejsFunction"}
    \/ (node.functionArn /= Undef /\ node.functionName /= Undef)

isQueue(node) ==
    \/ node.cls = "Queue"
    \/ (node.queueArn /= Undef /\ node.queueName /= Undef)

isDynamoDBTable(node) ==
    \/ node.cls = "Table"
    \/ (node.tableArn /= Undef /\ node.tableName /= Undef)

isApiMethod(node) == node.cls = "Method"

isSnsTopic(node) ==
    \/ node.cls = "Topic"
    \/ (node.topicName /= Undef /\ node.topicArn /= Undef)

isApiGateway(node) ==
    \/ node.cls = "RestApi"
    \/ (node.restApiId /= Undef /\ node.restApiName /= Undef)

-----------------------------------------------------------------------------
(* MetricFactory.  A factory is the record of its configured period.       *)

MetricFactory(timePeriod) == [timePeriod |-> timePeriod]

DefaultStatistic == "Average"
DefaultMetricPeriod == 5
DefaultWidth == 24
DefaultHeight == 6

\* A Metric constructor that accepts any dimension value.
NeverFaults(props) == FALSE

\* new Metric(...) rejects a dimension whose value is undefined or empty.
MetricFaults(props) ==
    /\ "dimensionsMap" \in DOMAIN props
    /\ \E k \in DOMAIN props.dimensionsMap : ~Truthy(props.dimensionsMap[k])

\* { statistic: 'Average', period: Duration.minutes(5), ...props }
createMetric(props) ==
    props @@ [statistic |-> DefaultStatistic, period |-> DefaultMetricPeriod]

\* A createGraphWidget whose defaults win over the caller's properties.
createGraphWidgetDefaultsWin(mf, props) ==
    [width |-> DefaultWidth, height |-> DefaultHeight, left |-> props.metrics,
     liveData |-> TRUE, period |-> mf.timePeriod] @@ props

\* { width: 24, height: 6, left: props.metrics, liveData: true,
\*   period: this.timePeriod, ...props }
createGraphWidget(mf, props) ==
    props @@ [width |-> DefaultWidth, height |-> DefaultHeight,
              left |-> props.metrics, liveData |-> TRUE, period |-> mf.timePeriod]

\* A createMetricSet that walks the metric names from last to first.
createMetricSetReversed(namespace, metricNames, dimensions) ==
    [i \in 1..Len(metricNames) |->
        createMetric([namespace |-> namespace,
                      metricName |-> metricNames[Len(metricNames) + 1 - i],
                      dimensionsMap |-> dimensions])]

\* metricNames.map(metricName =>
\*     this.createMetric({ namespace, metricName, dimensionsMap: dimensions }))
createMetricSet(namespace, metricNames, dimensions) ==
    [i \in 1..Len(metricNames) |->
        createMetric([namespace |-> namespace, metricName |-> metricNames[i],
                      dimensionsMap |-> dimensions])]

\* The map throws as soon as one createMetric call does.
createMetricSetFaults(namespace, metricNames, dimensions) ==
    \E i \in 1..Len(metricNames) :
        MetricFaults([namespace |-> namespace, metricName |-> metricNames[i],
                      dimensionsMap |-> dimensions])

-----------------------------------------------------------------------------
(* The forEach / try / catch loop shared by the providers.  A step is one  *)
(* statement of the try block: it pushes a metric on one accumulator, or   *)
(* it throws, which ends the block for that resource.                      *)

Push(group, props) ==
    [group |-> group, fault |-> MetricFaults(props), metric |-> createMetric(props)]

PushBuilt(group, metric) ==
    [group |-> group, fault |-> FALSE, metric |-> metric]

Throw == [group |-> "", fault |-> TRUE, metric |-> <<>>]

\* The accumulators of a call that were instance fields would still hold the
\* metrics of the previous call.
RetainedAccumulators(groups) ==
    [g \in groups |->
        IF call.n > 0 /\ g \in DOMAIN call.acc THEN call.acc[g] ELSE <<>>]

\* const xMetrics: IMetric[] = [] for every group of the provider.
NewAccumulators(groups) == [g \in groups |-> <<>>]

RECURSIVE RunTry(_, _)
RunTry(acc, steps) ==
    IF steps = <<>> THEN acc
    ELSE IF Head(steps).fault THEN acc
    ELSE RunTry([acc EXCEPT ![Head(steps).group] = Append(@, Head(steps).metric)],
                Tail(steps))

RECURSIVE RunAll(_, _)
RunAll(acc, blocks) ==
    IF blocks = <<>> THEN acc
    ELSE RunAll(RunTry(acc, Head(blocks)), Tail(blocks))

\* resources.forEach(r => { try { ... } catch (error) { } }): tryBlocks[i] is
\* the try block of the i-th resource.
ForEach(acc, tryBlocks) == RunAll(acc, tryBlocks)

-----------------------------------------------------------------------------
(* LambdaMetricProvider.                                                   *)

\* IFunction.metricX() of aws-cdk-lib, dimensioned by the function's name.
LambdaOwnMetric(lambda, metricName, statistic) ==
    [namespace |-> "AWS/Lambda", metricName |-> metricName,
     dimensionsMap |-> [FunctionName |-> lambda.functionName],
     statistic |-> statistic, period |-> DefaultMetricPeriod]

LambdaStep(lambda, group, fn, metricName, statistic) ==
    IF fn \in lambda.metricFns
    THEN PushBuilt(group, LambdaOwnMetric(lambda, metricName, statistic))
    ELSE Push(group, [namespace |-> "AWS/Lambda", metricName |-> metricName,
                      dimensionsMap |-> [FunctionName |-> lambda.functionName]])

\* A try block that pushes every metric of the function on invocationMetrics.
LambdaStepsUngrouped(lambda) ==
    << LambdaStep(lambda, "invocation", "metricInvocations", "Invocations", "Sum"),
       LambdaStep(lambda, "invocation", "metricDuration", "Duration", "Average"),
       LambdaStep(lambda, "invocation", "metricErrors", "Errors", "Sum"),
       LambdaStep(lambda, "invocation", "metricThrottles", "Throttles", "Sum") >>

\* A try block whose first push alone falls back to a literal name.
LambdaStepsFirstFallback(lambda) ==
    << Push("invocation",
            [namespace |-> "AWS/Lambda", metricName |-> "Invocations",
             dimensionsMap |->
                [FunctionName |-> JsOr(lambda.functionName, "unknown-function")]]),
       LambdaStep(lambda, "duration", "metricDuration", "Duration", "Average"),
       LambdaStep(lambda, "error", "metricErrors", "Errors", "Sum"),
       LambdaStep(lambda, "throttle", "metricThrottles", "Throttles", "Sum") >>

LambdaSteps(lambda) ==
    << LambdaStep(lambda, "invocation", "metricInvocations", "Invocations", "Sum"),
       LambdaStep(lambda, "duration", "metricDuration", "Duration", "Average"),
       LambdaStep(lambda, "error", "metricErrors", "Errors", "Sum"),
       LambdaStep(lambda, "throttle", "metricThrottles", "Throttles", "Sum") >>

LambdaGroups == {"invocation", "duration", "error", "throttle"}

LambdaAccumulate(functions) ==
    ForEach(NewAccumulators(LambdaGroups),
            [i \in 1..Len(functions) |-> LambdaSteps(functions[i])])

LambdaWidgetsOf(mf, acc) ==
    << createGraphWidget(mf, [title |-> "Lambda - Invocations",
                              metrics |-> acc["invocation"], width |-> 6]),
       createGraphWidget(mf, [title |-> "Lambda - Duration (ms)",
                              metrics |-> acc["duration"], width |-> 6]),
       createGraphWidget(mf, [title |-> "Lambda - Errors",
                              metrics |-> acc["error"], width |-> 6]),
       createGraphWidget(mf, [title |-> "Lambda - Throttles",
                              metrics |-> acc["throttle"], width |-> 6]) >>

LambdaCreateWidgets(mf, functions) ==
    IF Len(functions) = 0 THEN <<>>
    ELSE LambdaWidgetsOf(mf, LambdaAccumulate(functions))

-----------------------------------------------------------------------------
(* DynamoDBMetricProvider.                                                 *)

\* ITable.metricConsumedXCapacityUnits() of aws-cdk-lib.
TableOwnMetric(table, metricName) ==
    [namespace |-> "AWS/DynamoDB", metricName |-> metricName,
     dimensionsMap |-> [TableName |-> table.tableName],
     statistic |-> "Sum", period |-> DefaultMetricPeriod]

TableMetricProps(tableName, metricName) ==
    [namespace |-> "AWS/DynamoDB", metricName |-> metricName,
     dimensionsMap |-> [TableName |-> tableName]]

TableLatencyProps(tableName, operation) ==
    [namespace |-> "AWS/DynamoDB", metricName |-> "SuccessfulRequestLatency",
     dimensionsMap |-> [TableName |-> tableName, Operation |-> operation]]

TableCapacityStep(table, tableName, group, fn, metricName) ==
    IF fn \in table.metricFns
    THEN PushBuilt(group, TableOwnMetric(table, metricName))
    ELSE Push(group, TableMetricProps(tableName, metricName))

DynamoDBStepsFor(table, tableName) ==
    << TableCapacityStep(table, tableName, "readCapacity",
           "metricConsumedReadCapacityUnits", "ConsumedReadCapacityUnits"),
       TableCapacityStep(table, tableName, "writeCapacity",
           "metricConsumedWriteCapacityUnits", "ConsumedWriteCapacityUnits"),
       Push("readThrottle", TableMetricProps(tableName, "ReadThrottleEvents")),
       Push("writeThrottle", TableMetricProps(tableName, "WriteThrottleEvents")),
       Push("query", TableLatencyProps(tableName, "Query")),
       Push("scan", TableLatencyProps(tableName, "Scan")) >>

\* const tableName = table.tableName || 'unknown-table'
DynamoDBSteps(table) ==
    DynamoDBStepsFor(table, JsOr(table.tableName, "unknown-table"))

DynamoDBGroups ==
    {"readCapacity", "writeCapacity", "readThrottle", "writeThrottle", "query", "scan"}

DynamoDBAccumulate(tables) ==
    ForEach(NewAccumulators(DynamoDBGroups),
            [i \in 1..Len(tables) |-> DynamoDBSteps(tables[i])])

\* One widget per accumulator: read and write metrics on widgets of their own.
DynamoDBSixWidgets(mf, acc) ==
    << createGraphWidget(mf, [title |-> "DynamoDB - Read Capacity Units",
           metrics |-> acc["readCapacity"], width |-> 6]),
       createGraphWidget(mf, [title |-> "DynamoDB - Write Capacity Units",
           metrics |-> acc["writeCapacity"], width |-> 6]),
       createGraphWidget(mf, [title |-> "DynamoDB - Read Throttle Events",
           metrics |-> acc["readThrottle"], width |-> 6]),
       createGraphWidget(mf, [title |-> "DynamoDB - Write Throttle Events",
           metrics |-> acc["writeThrottle"], width |-> 6]),
       createGraphWidget(mf, [title |-> "DynamoDB - Query Latency",
           metrics |-> acc["query"], width |-> 6]),
       createGraphWidget(mf, [title |-> "DynamoDB - Scan Latency",
           metrics |-> acc["scan"], width |-> 6]) >>

DynamoDBWidgetsOf(mf, acc) ==
    << createGraphWidget(mf, [title |-> "DynamoDB - Capacity Units",
           metrics |-> acc["readCapacity"] \o acc["writeCapacity"], width |-> 6]),
       createGraphWidget(mf, [title |-> "DynamoDB - Throttle Events",
           metrics |-> acc["readThrottle"] \o acc["writeThrottle"], width |-> 6]),
       createGraphWidget(mf, [title |-> "DynamoDB - Query Latency",
           metrics |-> acc["query"], width |-> 6]),
       createGraphWidget(mf, [title |-> "DynamoDB - Scan Latency",
           metrics |-> acc["scan"], width |-> 6]) >>

DynamoDBCreateWidgets(mf, tables) ==
    IF Len(tables) = 0 THEN <<>>
    ELSE DynamoDBWidgetsOf(mf, DynamoDBAccumulate(tables))

-----------------------------------------------------------------------------
(* SNSMetricProvider.                                                      *)

TopicMetricProps(topicName, metricName) ==
    [namespace |-> "AWS/SNS", metricName |-> metricName,
     dimensionsMap |-> [TopicName |-> topicName]]

SNSStepsFor(topicName) ==
    << Push("publish", TopicMetricProps(topicName, "NumberOfMessagesPublished")),
       Push("delivery", TopicMetricProps(topicName, "NumberOfNotificationsDelivered")),
       Push("failure", TopicMetricProps(topicName, "NumberOfNotificationsFailed")) >>

\* A try block that reads topic.topicName without a fallback.
SNSStepsNoFallback(topic) == SNSStepsFor(topic.topicName)

\* const topicName = topic.topicName || 'unknown-topic'
SNSSteps(topic) == SNSStepsFor(JsOr(topic.topicName, "unknown-topic"))

SNSGroups == {"publish", "delivery", "failure"}

SNSAccumulate(topics) == ForEach(NewAccumulators(SNSGroups),
            [i \in 1..Len(topics) |-> SNSSteps(topics[i])])

SNSWidgetsOf(mf, acc) ==
    << createGraphWidget(mf, [title |-> "SNS - Published Messages",
           metrics |-> acc["publish"], width |-> 8]),
       createGraphWidget(mf, [title |-> "SNS - Notifications Delivered",
           metrics |-> acc["delivery"], width |-> 8]),
       createGraphWidget(mf, [title |-> "SNS - Notifications Failed",
           metrics |-> acc["failure"], width |-> 8]) >>

\* The provider without `if (topics.length === 0) return []`: three widgets
\* over no metrics.
SNSPlaceholderWidgets(mf, topics) == SNSWidgetsOf(mf, SNSAccumulate(topics))

SNSCreateWidgets(mf, topics) ==
    IF Len(topics) = 0 THEN <<>>
    ELSE SNSWidgetsOf(mf, SNSAccumulate(topics))

-----------------------------------------------------------------------------
(* SQSMetricProvider.                                                      *)

QueueMetricProps(queueName, metricName) ==
    [namespace |-> "AWS/SQS", metricName |-> metricName,
     dimensionsMap |-> [QueueName |-> queueName]]

SQSStepsFor(queueName) ==
    << Push("sent", QueueMetricProps(queueName, "NumberOfMessagesSent")),
       Push("received", QueueMetricProps(queueName, "NumberOfMessagesReceived")),
       Push("visible", QueueMetricProps(queueName, "ApproximateNumberOfMessagesVisible")),
       Push("age", QueueMetricProps(queueName, "ApproximateAgeOfOldestMessage")) >>

\* const queueName = queue.queueName || 'unknown-queue'
SQSSteps(queue) == SQSStepsFor(JsOr(queue.queueName, "unknown-queue"))

SQSGroups == {"sent", "received", "visible", "age"}

SQSAccumulate(qs) == ForEach(NewAccumulators(SQSGroups),
            [i \in 1..Len(qs) |-> SQSSteps(qs[i])])

\* The SQS widgets without the one for the age of the oldest message.
SQSThreeWidgets(mf, acc) ==
    << createGraphWidget(mf, [title |-> "SQS - Messages Sent",
           metrics |-> acc["sent"], width |-> 6]),
       createGraphWidget(mf, [title |-> "SQS - Messages Received",
           metrics |-> acc["received"], width |-> 6]),
       createGraphWidget(mf, [title |-> "SQS - Visible Messages",
           metrics |-> acc["visible"], width |-> 6]) >>

SQSWidgetsOf(mf, acc) ==
    << createGraphWidget(mf, [title |-> "SQS - Messages Sent",
           metrics |-> acc["sent"], width |-> 6]),
       createGraphWidget(mf, [title |-> "SQS - Messages Received",
           metrics |-> acc["received"], width |-> 6]),
       createGraphWidget(mf, [title |-> "SQS - Visible Messages",
           metrics |-> acc["visible"], width |-> 6]),
       createGraphWidget(mf, [title |-> "SQS - Age of Oldest Message (seconds)",
           metrics |-> acc["age"], width |-> 6]) >>

SQSCreateWidgets(mf, qs) ==
    IF Len(qs) = 0 THEN <<>>
    ELSE SQSWidgetsOf(mf, SQSAccumulate(qs))

-----------------------------------------------------------------------------
(* ApiGatewayMetricProvider.                                               *)

ApiMetricProps(apiName, metricName) ==
    [namespace |-> "AWS/ApiGateway", metricName |-> metricName,
     dimensionsMap |-> [ApiName |-> apiName]]

ApiGatewayStepsFor(apiName) ==
    << Push("requestCount", ApiMetricProps(apiName, "Count")),
       Push("latency", ApiMetricProps(apiName, "Latency")),
       Push("error4xx", ApiMetricProps(apiName, "4XXError")),
       Push("error5xx", ApiMetricProps(apiName, "5XXError")) >>

\* const apiName = api.restApiName || 'unknown-api'
ApiGatewaySteps(api) == ApiGatewayStepsFor(JsOr(api.restApiName, "unknown-api"))

ApiGroups == {"requestCount", "latency", "error4xx", "error5xx"}

ApiGatewayAccumulate(apis) ==
    ForEach(NewAccumulators(ApiGroups),
            [i \in 1..Len(apis) |-> ApiGatewaySteps(apis[i])])

ApiGatewayWidgetsOf(mf, acc) ==
    << createGraphWidget(mf, [title |-> "API Gateway - Request Count",
           metrics |-> acc["requestCount"]]),
       createGraphWidget(mf, [title |-> "API Gateway - Latency (ms)",
           metrics |-> acc["latency"]]),
       createGraphWidget(mf, [title |-> "API Gateway - 4XX Errors",
           metrics |-> acc["error4xx"]]),
       createGraphWidget(mf, [title |-> "API Gateway - 5XX Errors",
           metrics |-> acc["error5xx"]]) >>

ApiGatewayCreateWidgets(mf, apis) ==
    IF Len(apis) = 0 THEN <<>>
    ELSE ApiGatewayWidgetsOf(mf, ApiGatewayAccumulate(apis))

-----------------------------------------------------------------------------
(* ApiMethodMetricProvider.                                                *)

MethodMetricProps(apiName, apiMethod, metricName) ==
    [namespace |-> "AWS/ApiGateway", metricName |-> metricName,
     dimensionsMap |-> [ApiName |-> apiName, Method |-> apiMethod]]

ApiMethodStepsFor(apiName, apiMethod) ==
    << Push("requestCount", MethodMetricProps(apiName, apiMethod, "Count")),
       Push("latency", MethodMetricProps(apiName, apiMethod, "Latency")),
       Push("error4xx", MethodMetricProps(apiName, apiMethod, "4XXError")),
       Push("error5xx", MethodMetricProps(apiName, apiMethod, "5XXError")) >>

\* const apiName = method.resource.path || 'unknown-api': reading .path of a
\* missing resource throws before any metric is pushed.
\* const apiMethod = method.httpMethod || 'unknown-method'
ApiMethodSteps(method) ==
    IF method.resource = Undef THEN << Throw >>
    ELSE ApiMethodStepsFor(JsOr(method.path, "unknown-api"),
                           JsOr(method.httpMethod, "unknown-method"))

ApiMethodAccumulate(methods) ==
    ForEach(NewAccumulators(ApiGroups),
            [i \in 1..Len(methods) |-> ApiMethodSteps(methods[i])])

\* An Error Rate widget that alternates the 4XX and 5XX metric of each method.
ApiMethodWidgetsInterleaved(mf, acc) ==
    << createGraphWidget(mf, [title |-> "API Gateway Method - Request Count",
           metrics |-> acc["requestCount"], width |-> 8]),
       createGraphWidget(mf, [title |-> "API Gateway Method - Latency (ms)",
           metrics |-> acc["latency"], width |-> 8]),
       createGraphWidget(mf, [title |-> "API Gateway Method - Error Rate",
           metrics |-> [i \in 1..(2 * Len(acc["error4xx"])) |->
                           IF i % 2 = 1 THEN acc["error4xx"][(i + 1) \div 2]
                           ELSE acc["error5xx"][i \div 2]],
           width |-> 8]) >>

ApiMethodWidgetsOf(mf, acc) ==
    << createGraphWidget(mf, [title |-> "API Gateway Method - Request Count",
           metrics |-> acc["requestCount"], width |-> 8]),
       createGraphWidget(mf, [title |-> "API Gateway Method - Latency (ms)",
           metrics |-> acc["latency"], width |-> 8]),
       createGraphWidget(mf, [title |-> "API Gateway Method - Error Rate",
           metrics |-> acc["error4xx"] \o acc["error5xx"], width |-> 8]) >>

ApiMethodCreateWidgets(mf, methods) ==
    IF Len(methods) = 0 THEN <<>>
    ELSE ApiMethodWidgetsOf(mf, ApiMethodAccumulate(methods))

-----------------------------------------------------------------------------
(* ServiceMetrics: one provider per kind, all sharing the metric factory.  *)

ServiceMetrics(metricFactory) == [metricFactory |-> metricFactory]

createLambdaWidgets(sm, functions) == LambdaCreateWidgets(sm.metricFactory, functions)

createApiGatewayWidgets(sm, apis) == ApiGatewayCreateWidgets(sm.metricFactory, apis)

createDynamoDBWidgets(sm, tables) == DynamoDBCreateWidgets(sm.metricFactory, tables)

createSNSWidgets(sm, topics) == SNSCreateWidgets(sm.metricFactory, topics)

createSQSWidgets(sm, qs) == SQSCreateWidgets(sm.metricFactory, qs)

createApiMethodWidgets(sm, methods) == ApiMethodCreateWidgets(sm.metricFactory, methods)

-----------------------------------------------------------------------------
(* The CloudWatch Dashboard the widgets are published to.  rows holds one  *)
(* entry per addWidgets call that carried a widget; the published list is  *)
(* the widgets of all rows in order.                                       *)

DashboardAddWidgets(r, ws) == IF Len(ws) = 0 THEN r ELSE Append(r, ws)

Published(r) == Flatten(r)

\* The dashboard after the addWidgets calls `calls` are made in order, the
\* faultAt-th of them throwing (0: none throws).
RECURSIVE WriteAll(_, _, _)
WriteAll(r, calls, faultAt) ==
    IF calls = <<>> \/ faultAt = 1 THEN r
    ELSE WriteAll(DashboardAddWidgets(r, Head(calls)), Tail(calls),
                  IF faultAt = 0 THEN 0 ELSE faultAt - 1)

\* The number of addWidgets calls entered.
CallsMade(calls, faultAt) == IF faultAt = 0 THEN Len(calls) ELSE faultAt

\* widgets.forEach(widget => this.dashboard.addWidgets(widget))
OneCallPerWidget(ws) == [i \in 1..Len(ws) |-> << ws[i] >>]

-----------------------------------------------------------------------------
(* CdkDashboard (index.ts).                                                *)

DefaultTimeframe == 180

TextWidget(markdown) ==
    [type |-> "text", markdown |-> markdown, width |-> 24, height |-> 1]

CustomWidgets == { TextWidget("# c1"), TextWidget("# c2") }

AddWidgetsInputs ==
    { <<>> } \cup { << w >> : w \in CustomWidgets }
             \cup { << TextWidget("# c1"), TextWidget("# c2") >> }

NodeInputs ==
    { MkTable("items"), MkFunction("proc-1"), MkNodejsFunction("proc-2"),
      MkQueue("jobs"), MkMethod("GET", "/"), MkTopic("events"), MkRestApi("api"),
      MkDuck("imported-fn", "imported-table"),
      MkTopicApiDuck("imported-topic", "imported-api"), PlainConstruct }

\* The props objects given to the constructor: {}, and a name with a
\* timeframe of one day.
NoProps == [x \in {} |-> TRUE]

PropsInputs ==
    { NoProps, [dashboardName |-> ""],
      [dashboardName |-> "custom-dashboard-name", timeframe |-> 1440] }

\* A constructor that falls back to the literal of the construct id.
dashboardNameOfId(p) ==
    JsOr(IF "dashboardName" \in DOMAIN p THEN p.dashboardName ELSE Undef, "default")

\* dashboardName || 'CdkDashboard'
dashboardName(p) ==
    JsOr(IF "dashboardName" \in DOMAIN p THEN p.dashboardName ELSE Undef, "CdkDashboard")

\* new ServiceMetrics(new MetricFactory(Duration.hours(3)))
serviceMetrics == ServiceMetrics(MetricFactory(DefaultTimeframe))

CdkInit ==
    /\ dydbTables = <<>>
    /\ lambdas = <<>>
    /\ widgets = <<>>
    /\ queues = <<>>
    /\ apiMethods = <<>>
    /\ apiGateways = <<>>
    /\ snsTopics = <<>>
    /\ rows = <<>>
    /\ phase = "collecting"
    /\ lastOp = "new"
    /\ sinkWrites = 0

\* A chain that tests the predicates in the order Function, HttpApi,
\* HttpMethod, Table, Topic, Queue.
FunctionFirstClassify(node) ==
    IF isLambdaFunction(node) THEN "lambdas"
    ELSE IF isApiGateway(node) THEN "apiGateways"
    ELSE IF isApiMethod(node) THEN "apiMethods"
    ELSE IF isDynamoDBTable(node) THEN "dydbTables"
    ELSE IF isSnsTopic(node) THEN "snsTopics"
    ELSE IF isQueue(node) THEN "queues"
    ELSE "none"

\* A chain whose last branch takes every node the others left.
ClassifyNoElse(node) ==
    IF isDynamoDBTable(node) THEN "dydbTables"
    ELSE IF isLambdaFunction(node) THEN "lambdas"
    ELSE IF isQueue(node) THEN "queues"
    ELSE IF isApiMethod(node) THEN "apiMethods"
    ELSE IF isSnsTopic(node) THEN "snsTopics"
    ELSE "apiGateways"

\* The branch of the if / else-if chain of visit that takes the node.
Classify(node) ==
    IF isDynamoDBTable(node) THEN "dydbTables"
    ELSE IF isLambdaFunction(node) THEN "lambdas"
    ELSE IF isQueue(node) THEN "queues"
    ELSE IF isApiMethod(node) THEN "apiMethods"
    ELSE IF isSnsTopic(node) THEN "snsTopics"
    ELSE IF isApiGateway(node) THEN "apiGateways"
    ELSE "none"

Collected == Len(dydbTables) + Len(lambdas) + Len(queues) + Len(apiMethods)
             + Len(snsTopics) + Len(apiGateways)

\* A rebuild that forgot `rows = []` would add to the rows already there.
KeepRows(r) == r

\* (this.dashboard as ...).rows = []
ResetRows(r) == <<>>

\* The widget list with the Lambda widgets ahead of the DynamoDB widgets.
LambdaFirstWidgets(custom, tables, functions, qs, apis, methods, topics) ==
    custom
    \o createLambdaWidgets(serviceMetrics, functions)
    \o createDynamoDBWidgets(serviceMetrics, tables)
    \o createSQSWidgets(serviceMetrics, qs)
    \o createApiGatewayWidgets(serviceMetrics, apis)
    \o createApiMethodWidgets(serviceMetrics, methods)
    \o createSNSWidgets(serviceMetrics, topics)

\* The widget list without the SNS widgets.
NoTopicWidgets(custom, tables, functions, qs, apis, methods, topics) ==
    custom
    \o createDynamoDBWidgets(serviceMetrics, tables)
    \o createLambdaWidgets(serviceMetrics, functions)
    \o createSQSWidgets(serviceMetrics, qs)
    \o createApiGatewayWidgets(serviceMetrics, apis)
    \o createApiMethodWidgets(serviceMetrics, methods)

\* The arguments of the addWidgets call of visit.
AssembledWidgets(custom, tables, functions, qs, apis, methods, topics) ==
    custom
    \o createDynamoDBWidgets(serviceMetrics, tables)
    \o createLambdaWidgets(serviceMetrics, functions)
    \o createSQSWidgets(serviceMetrics, qs)
    \o createApiGatewayWidgets(serviceMetrics, apis)
    \o createApiMethodWidgets(serviceMetrics, methods)
    \o createSNSWidgets(serviceMetrics, topics)

\* this.dashboard.addWidgets(...): one call carrying every widget.
RebuildCalls(ws) == << ws >>

\* Lines 122-133 of visit on dashboard rows r.
Rebuild(r, faultAt, custom, tables, functions, qs, apis, methods, topics) ==
    WriteAll(ResetRows(r),
             RebuildCalls(AssembledWidgets(custom, tables, functions, qs, apis,
                                           methods, topics)),
             faultAt)

Visit(node, faultAt) ==
    /\ phase = "collecting"
    /\ LET k == Classify(node)
           t == IF k = "dydbTables" THEN Append(dydbTables, node) ELSE dydbTables
           l == IF k = "lambdas" THEN Append(lambdas, node) ELSE lambdas
           q == IF k = "queues" THEN Append(queues, node) ELSE queues
           m == IF k = "apiMethods" THEN Append(apiMethods, node) ELSE apiMethods
           s == IF k = "snsTopics" THEN Append(snsTopics, node) ELSE snsTopics
           g == IF k = "apiGateways" THEN Append(apiGateways, node) ELSE apiGateways
           calls == RebuildCalls(AssembledWidgets(widgets, t, l, q, g, m, s))
       IN  IF k = "none"
           THEN /\ faultAt = 0
                /\ lastOp' = "visitIgnored"
                /\ UNCHANGED <<dydbTables, lambdas, widgets, queues, apiMethods,
                               apiGateways, snsTopics, rows, phase, sinkWrites>>
           ELSE /\ Collected < MaxResources
                /\ faultAt <= Len(calls)
                /\ dydbTables' = t
                /\ lambdas' = l
                /\ queues' = q
                /\ apiMethods' = m
                /\ snsTopics' = s
                /\ apiGateways' = g
                /\ rows' = Rebuild(rows, faultAt, widgets, t, l, q, g, m, s)
                /\ sinkWrites' = sinkWrites + CallsMade(calls, faultAt)
                /\ phase' = IF faultAt = 0 THEN phase ELSE "aborted"
                /\ lastOp' = IF faultAt = 0 THEN "visit" ELSE "visitFault"
                /\ UNCHANGED widgets
    /\ UNCHANGED <<aspect, call, pass, traversal, cdkProps, factoryCall>>

AddWidgets(ws) ==
    /\ phase /= "aborted"
    /\ Len(widgets) + Len(ws) <= MaxCustom
    /\ widgets' = widgets \o ws
    /\ lastOp' = "addWidgets"
    /\ UNCHANGED <<dydbTables, lambdas, queues, apiMethods, apiGateways, snsTopics,
                   rows, phase, sinkWrites, aspect, call, pass, traversal, cdkProps, factoryCall>>

\* The traversal host has visited every node of the scope.
TraversalComplete ==
    /\ phase = "collecting"
    /\ phase' = "complete"
    /\ UNCHANGED <<dydbTables, lambdas, widgets, queues, apiMethods, apiGateways,
                   snsTopics, rows, lastOp, sinkWrites, aspect, call, pass, traversal, cdkProps, factoryCall>>

-----------------------------------------------------------------------------
(* DashboardAspect (dashboard/dashboard-aspect.ts).  options is the record *)
(* of the properties the caller set; a property left out is undefined.     *)

EmptyOptions == [x \in {} |-> TRUE]

DefaultPeriodHours == 3

\* this.options.includeX !== false
Included(options, flag) == ~(flag \in DOMAIN options /\ options[flag] = FALSE)

\* this.options.periodHours || 3
getDefaultPeriodHours(options) ==
    IF "periodHours" \in DOMAIN options /\ options["periodHours"] /= 0
    THEN options["periodHours"] ELSE DefaultPeriodHours

\* new MetricFactory(periodHours): widgets show Duration.hours(periodHours).
AspectMetricFactory(options) == MetricFactory(getDefaultPeriodHours(options) * 60)

\* constructor.name.includes(cfnTypeName), for the construct and for its
\* default child: a class name is an identifier and every cfnTypeName the
\* aspect asks for holds a dot.
ConstructorNameIncludes(construct, cfnTypeName) == FALSE

\* Whether tryGetResource returns the construct (TRUE) or undefined (FALSE).
tryGetResource(construct, cfnTypeName) ==
    \/ cfnTypeName = "lambda.Function" /\ construct.functionName /= Undef
    \/ cfnTypeName = "apigateway.RestApi"
         /\ JsOr(construct.restApiId, construct.restApiName) /= Undef
    \/ cfnTypeName = "dynamodb.Table"
         /\ JsOr(construct.tableName, construct.tableArn) /= Undef
    \/ cfnTypeName = "sns.Topic"
         /\ JsOr(construct.topicName, construct.topicArn) /= Undef
    \/ cfnTypeName = "sqs.Queue"
         /\ JsOr(construct.queueName, construct.queueUrl) /= Undef
    \/ ConstructorNameIncludes(construct, cfnTypeName)

\* A block that puts the resource at the front of its collection.
CollectAtFront(options, flag, cfnTypeName, node, collection) ==
    IF Included(options, flag) /\ tryGetResource(node, cfnTypeName)
    THEN <<node>> \o collection ELSE collection

\* The collection of the aspect after one `if (include) { tryGet; push }` block.
Collect(options, flag, cfnTypeName, node, collection) ==
    IF Included(options, flag) /\ tryGetResource(node, cfnTypeName)
    THEN Append(collection, node) ELSE collection

\* A block that does not test its include flag.
CollectUnflagged(options, flag, cfnTypeName, node, collection) ==
    IF tryGetResource(node, cfnTypeName) THEN Append(collection, node) ELSE collection

\* The SNS block of visit, lines 75-81.
CollectTopic(options, flag, cfnTypeName, node, collection) ==
    Collect(options, flag, cfnTypeName, node, collection)

NewAspect(options) ==
    [options |-> options,
     metricFactory |-> AspectMetricFactory(options),
     lambdaFunctions |-> <<>>, restApis |-> <<>>, dynamoTables |-> <<>>,
     snsTopics |-> <<>>, sqsQueues |-> <<>>,
     dashboardGenerated |-> FALSE,
     rows |-> <<>>,        \* the rows of the aspect's dashboard
     invoked |-> {},       \* the createXWidgets methods generateDashboard called
     generateCalls |-> 0,  \* the number of generateDashboard calls
     seen |-> <<>>]        \* the constructs visit was called with, in order

OptionInputs ==
    { EmptyOptions,
      [stack |-> "stack"],
      [stack |-> "stack", includeSNS |-> FALSE],
      [stack |-> "stack", includeLambda |-> FALSE],
      [stack |-> "stack", includeDynamoDB |-> FALSE],
      [stack |-> "stack", includeApiGateway |-> FALSE],
      [stack |-> "stack", periodHours |-> 6, includeLambda |-> TRUE,
       includeApiGateway |-> TRUE, includeDynamoDB |-> TRUE,
       includeSNS |-> FALSE, includeSQS |-> FALSE] }

AspectNodeInputs ==
    { MkFunction("proc-1"), MkTable("items"), MkQueue("jobs"), MkTopic("events"),
      MkRestApi("api"), MkDuck("proc-2", "items-2"), RootConstruct, NonConstruct }

AspectInit == aspect \in { NewAspect(o) : o \in OptionInputs }

\* DashboardAspect.visit on aspect a.
aspectVisit(a, node) ==
    IF node.cls = "Object"
    THEN [a EXCEPT !.seen = Append(@, node)]
    ELSE [a EXCEPT
            !.lambdaFunctions =
                Collect(a.options, "includeLambda", "lambda.Function", node, @),
            !.restApis =
                Collect(a.options, "includeApiGateway", "apigateway.RestApi", node, @),
            !.dynamoTables =
                Collect(a.options, "includeDynamoDB", "dynamodb.Table", node, @),
            !.snsTopics =
                CollectTopic(a.options, "includeSNS", "sns.Topic", node, @),
            !.sqsQueues =
                Collect(a.options, "includeSQS", "sqs.Queue", node, @),
            !.seen = Append(@, node)]

AspectVisit(node) ==
    /\ Len(aspect.seen) < MaxAspectVisits
    /\ aspect' = aspectVisit(aspect, node)
    /\ UNCHANGED <<dydbTables, lambdas, widgets, queues, apiMethods, apiGateways,
                   snsTopics, rows, phase, lastOp, sinkWrites, call, pass, traversal, cdkProps, factoryCall>>

\* The kinds in the order generateDashboard handles them, each with the
\* widgets its `if (collection.length > 0)` block builds.
AspectBlocks(a) ==
    LET sm == ServiceMetrics(a.metricFactory)
    IN << [method |-> "createLambdaWidgets", run |-> Len(a.lambdaFunctions) > 0,
           widgets |-> createLambdaWidgets(sm, a.lambdaFunctions)],
          [method |-> "createApiGatewayWidgets", run |-> Len(a.restApis) > 0,
           widgets |-> createApiGatewayWidgets(sm, a.restApis)],
          [method |-> "createDynamoDBWidgets", run |-> Len(a.dynamoTables) > 0,
           widgets |-> createDynamoDBWidgets(sm, a.dynamoTables)],
          [method |-> "createSNSWidgets", run |-> Len(a.snsTopics) > 0,
           widgets |-> createSNSWidgets(sm, a.snsTopics)],
          [method |-> "createSQSWidgets", run |-> Len(a.sqsQueues) > 0,
           widgets |-> createSQSWidgets(sm, a.sqsQueues)] >>

\* The addWidgets calls of the blocks that run, in order.
RECURSIVE BlockCalls(_)
BlockCalls(blocks) ==
    IF blocks = <<>> THEN <<>>
    ELSE (IF Head(blocks).run THEN OneCallPerWidget(Head(blocks).widgets) ELSE <<>>)
         \o BlockCalls(Tail(blocks))

\* The createXWidgets methods entered when the faultAt-th addWidgets call
\* throws (0: none throws): a block is entered when every call before it
\* returned.
RECURSIVE BlocksEntered(_, _, _)
BlocksEntered(blocks, before, faultAt) ==
    IF blocks = <<>> THEN {}
    ELSE IF ~Head(blocks).run THEN BlocksEntered(Tail(blocks), before, faultAt)
    ELSE IF faultAt /= 0 /\ faultAt <= before THEN {}
    ELSE {Head(blocks).method}
         \cup BlocksEntered(Tail(blocks), before + Len(Head(blocks).widgets), faultAt)

\* generateDashboard without the dashboardGenerated test of lines 98-100.
generateDashboardAgain(a, faultAt) ==
    [a EXCEPT
       !.rows = WriteAll(@, BlockCalls(AspectBlocks(a)), faultAt),
       !.invoked = @ \cup BlocksEntered(AspectBlocks(a), 0, faultAt),
       !.dashboardGenerated = (faultAt = 0),
       !.generateCalls = @ + 1]

\* generateDashboard on aspect a, its faultAt-th dashboard write throwing.
generateDashboard(a, faultAt) ==
    IF a.dashboardGenerated THEN [a EXCEPT !.generateCalls = @ + 1]
    ELSE [a EXCEPT
            !.rows = WriteAll(@, BlockCalls(AspectBlocks(a)), faultAt),
            !.invoked = @ \cup BlocksEntered(AspectBlocks(a), 0, faultAt),
            !.dashboardGenerated = (faultAt = 0),
            !.generateCalls = @ + 1]

\* How a generateDashboard call on aspect a ends.
generateOutcome(a, faultAt) ==
    IF a.dashboardGenerated THEN "generateDashboardNoop"
    ELSE IF faultAt /= 0 THEN "generateDashboardFault"
    ELSE "generateDashboard"

GenerateDashboard(faultAt) ==
    /\ aspect.generateCalls < MaxGenerateCalls
    /\ faultAt <= Len(BlockCalls(AspectBlocks(aspect)))
    /\ aspect.dashboardGenerated => faultAt = 0
    /\ aspect' = generateDashboard(aspect, faultAt)
    /\ lastOp' = generateOutcome(aspect, faultAt)
    /\ UNCHANGED <<dydbTables, lambdas, widgets, queues, apiMethods, apiGateways,
                   snsTopics, rows, phase, sinkWrites, call, pass, traversal, cdkProps, factoryCall>>

\* DashboardCompletionAspect.visit on aspect a.
completionVisit(a, node) ==
    IF node.root THEN generateDashboard(a, 0) ELSE a

\* DashboardCompletionAspect.visit: registered when options.stack is set.
CompletionVisit(node) ==
    /\ "stack" \in DOMAIN aspect.options
    /\ node.root => aspect.generateCalls < MaxGenerateCalls
    /\ aspect' = completionVisit(aspect, node)
    /\ lastOp' = IF node.root THEN generateOutcome(aspect, 0) ELSE lastOp
    /\ UNCHANGED <<dydbTables, lambdas, widgets, queues, apiMethods, apiGateways,
                   snsTopics, rows, phase, sinkWrites, call, pass, traversal, cdkProps, factoryCall>>

-----------------------------------------------------------------------------
(* Calls of the providers and the assembly pass on fixed inputs.           *)

Providers == {"Lambda", "ApiGateway", "ApiMethod", "DynamoDB", "SNS", "SQS"}

\* provider.createWidgets(resources) of the provider of the given kind.
CreateWidgets(kind, mf, resources) ==
    CASE kind = "Lambda" -> LambdaCreateWidgets(mf, resources)
      [] kind = "ApiGateway" -> ApiGatewayCreateWidgets(mf, resources)
      [] kind = "ApiMethod" -> ApiMethodCreateWidgets(mf, resources)
      [] kind = "DynamoDB" -> DynamoDBCreateWidgets(mf, resources)
      [] kind = "SNS" -> SNSCreateWidgets(mf, resources)
      [] kind = "SQS" -> SQSCreateWidgets(mf, resources)

\* The accumulator arrays of the call when its forEach loop has ended.
Accumulators(kind, resources) ==
    CASE kind = "Lambda" -> LambdaAccumulate(resources)
      [] kind = "ApiGateway" -> ApiGatewayAccumulate(resources)
      [] kind = "ApiMethod" -> ApiMethodAccumulate(resources)
      [] kind = "DynamoDB" -> DynamoDBAccumulate(resources)
      [] kind = "SNS" -> SNSAccumulate(resources)
      [] kind = "SQS" -> SQSAccumulate(resources)

\* Resources of each kind, imported ones and ones without a name included.
ResourceInputs(kind) ==
    CASE kind = "Lambda" ->
           { MkFunction("proc-1"),
             [MkFunction("proc-2") EXCEPT !.metricFns = {}],
             [MkFunction(Undef) EXCEPT !.metricFns = {}] }
      [] kind = "ApiGateway" ->
           { MkRestApi("api"), MkRestApi("admin"), MkRestApi(Undef) }
      [] kind = "ApiMethod" ->
           { MkMethod("GET", "/"), MkMethod("POST", "/items"), MkMethod(Undef, Undef),
             [MkMethod("GET", "/") EXCEPT !.resource = Undef, !.path = Undef] }
      [] kind = "DynamoDB" ->
           { MkTable("items"),
             [MkTable("users") EXCEPT !.metricFns = {}],
             [MkTable(Undef) EXCEPT !.metricFns = {}] }
      [] kind = "SNS" ->
           { MkTopic("events"), MkTopic("alerts"), MkTopic(Undef) }
      [] kind = "SQS" ->
           { MkQueue("jobs"), MkQueue("retries"), MkQueue(Undef) }

SeqsUpTo(S, n) == UNION { [1..k -> S] : k \in 0..n }

NoCall ==
    [n |-> 0, kind |-> "none", input |-> <<>>, output |-> <<>>,
     prevOutput |-> <<>>, acc |-> EmptyOptions]

CreateWidgetsCall(kind, resources) ==
    /\ call.n < MaxCalls
    /\ call.n = 0 \/ (kind = call.kind /\ resources = call.input)
    /\ call' = [n |-> call.n + 1, kind |-> kind, input |-> resources,
                output |-> CreateWidgets(kind, serviceMetrics.metricFactory, resources),
                prevOutput |-> call.output,
                acc |-> Accumulators(kind, resources)]
    /\ UNCHANGED <<dydbTables, lambdas, widgets, queues, apiMethods, apiGateways,
                   snsTopics, rows, phase, lastOp, sinkWrites, aspect, pass, traversal, cdkProps, factoryCall>>

Snapshot(custom, tables, functions, qs, apis, methods, topics) ==
    [custom |-> custom, tables |-> tables, functions |-> functions, qs |-> qs,
     apis |-> apis, methods |-> methods, topics |-> topics]

SnapshotInputs ==
    { Snapshot(c, t, f, <<>>, <<>>, <<>>, <<>>) :
        c \in { <<>>, << TextWidget("# c1") >> },
        t \in { <<>>, << MkTable("items") >> },
        f \in { <<>>, << MkFunction("proc-1") >>,
                << MkFunction("proc-1"), MkNodejsFunction("proc-2") >> } }
    \cup
    { Snapshot(<< TextWidget("# c1") >>, << MkTable("items") >>,
               << MkFunction("proc-1") >>, << MkQueue("jobs") >>,
               << MkRestApi("api") >>, << MkMethod("GET", "/") >>,
               << MkTopic("events") >>) }

NoPass == [n |-> 0, snapshot |-> Snapshot(<<>>, <<>>, <<>>, <<>>, <<>>, <<>>, <<>>),
           rows |-> <<>>, prevRows |-> <<>>]

\* One run of lines 122-133 of CdkDashboard.visit over the snapshot.
AssemblyPass(snap) ==
    /\ pass.n < MaxCalls
    /\ pass.n = 0 \/ snap = pass.snapshot
    /\ pass' = [n |-> pass.n + 1, snapshot |-> snap,
                rows |-> Rebuild(pass.rows, 0, snap.custom, snap.tables,
                                 snap.functions, snap.qs, snap.apis, snap.methods,
                                 snap.topics),
                prevRows |-> pass.rows]
    /\ UNCHANGED <<dydbTables, lambdas, widgets, queues, apiMethods, apiGateways,
                   snsTopics, rows, phase, lastOp, sinkWrites, aspect, call, traversal, cdkProps, factoryCall>>

-----------------------------------------------------------------------------
(* The traversal that applies the aspects of a scope: the scope first, then *)
(* its descendants, every aspect of the scope being invoked on each node.   *)

\* A Stack created inside an App: its node.scope is the App.
MkStack == [PlainConstruct EXCEPT !.cls = "Stack"]

\* The scope the aspects are added to: the root of the tree or a stack.
ScopeInputs == { RootConstruct, MkStack }

\* The constructs below the scope; each has a scope of its own.
DescendantInputs ==
    { MkFunction("proc-1"), MkTable("items"), MkQueue("jobs"), MkTopic("events"),
      MkRestApi("api"), PlainConstruct }

\* The order in which a traversal reaches the nodes: a node before its
\* children.
TraversalOrders ==
    { <<scope>> \o below : scope \in ScopeInputs,
                           below \in SeqsUpTo(DescendantInputs, MaxAspectVisits) }

TraversalInit ==
    /\ aspect \in { NewAspect(o) : o \in { x \in OptionInputs : "stack" \in DOMAIN x } }
    /\ traversal \in { [order |-> o, pos |-> 0] : o \in TraversalOrders }

\* The traversal reaches its next node and invokes both aspects on it, the
\* completion aspect ahead of the collecting aspect or after it.
TraverseNode(completionFirst) ==
    /\ traversal.pos < Len(traversal.order)
    /\ LET node == traversal.order[traversal.pos + 1]
       IN aspect' = IF completionFirst
                    THEN aspectVisit(completionVisit(aspect, node), node)
                    ELSE completionVisit(aspectVisit(aspect, node), node)
    /\ traversal' = [traversal EXCEPT !.pos = @ + 1]
    /\ UNCHANGED <<dydbTables, lambdas, widgets, queues, apiMethods, apiGateways,
                   snsTopics, rows, phase, lastOp, sinkWrites, call, pass, cdkProps, factoryCall>>

-----------------------------------------------------------------------------
(* MetricFactory called directly, as its tests do.  The factory has no     *)
(* mutable state, so a behaviour is one call on a factory of some period.  *)

MaxMetrics == 2
MaxNames == 2

\* An optional property: left out, or given one of vals.
OptField(name, vals) ==
    { [k \in {} |-> Undef] } \cup { [k \in {name} |-> v] : v \in vals }

\* An omitted dimensions argument is the map with no keys.
NoDimensions == [k \in {} |-> Undef]

DimensionInputs ==
    { NoDimensions, [FunctionName |-> "test-function"],
      [FunctionName |-> Undef], [FunctionName |-> ""] }

\* Duration.hours(3) and Duration.days(1), in minutes.
FactoryInputs == { MetricFactory(180), MetricFactory(1440) }

MetricPropsInputs ==
    { [namespace |-> ns, metricName |-> mn] @@ d @@ st @@ pe :
        ns \in {"AWS/Lambda", "AWS/SQS"}, mn \in {"Invocations", "Errors"},
        d \in OptField("dimensionsMap", DimensionInputs \ {NoDimensions}),
        st \in OptField("statistic", {"Sum"}), pe \in OptField("period", {1}) }

WidgetMetricInputs ==
    { createMetric([namespace |-> "AWS/Lambda", metricName |-> mn,
                    dimensionsMap |-> [FunctionName |-> "test-function"]]) :
        mn \in {"Invocations", "Errors"} }

\* Partial<GraphWidgetProps> & { title, metrics }: any widget property may
\* be given, the left axis included.
GraphWidgetPropsInputs ==
    { [title |-> "Test Widget", metrics |-> ms] @@ w @@ h @@ ld @@ pe @@ l :
        ms \in SeqsUpTo(WidgetMetricInputs, MaxMetrics),
        w \in OptField("width", {12}), h \in OptField("height", {3}),
        ld \in OptField("liveData", {FALSE}), pe \in OptField("period", {60}),
        l \in OptField("left", { <<[namespace |-> "AWS/SQS",
                                    metricName |-> "NumberOfMessagesSent"]>> }) }

MetricNameInputs == {"Invocations", "Errors", "Duration"}

NoFactoryCall ==
    [op |-> "none", timePeriod |-> 0, input |-> <<>>, threw |-> FALSE,
     output |-> Undef]

CreateMetricCall(mf, props) ==
    /\ factoryCall.op = "none"
    /\ factoryCall' =
         [op |-> "createMetric", timePeriod |-> mf.timePeriod, input |-> props,
          threw |-> MetricFaults(props),
          output |-> IF MetricFaults(props) THEN Undef ELSE createMetric(props)]
    /\ UNCHANGED <<dydbTables, lambdas, widgets, queues, apiMethods, apiGateways,
                   snsTopics, rows, phase, lastOp, sinkWrites, aspect, call,
                   pass, traversal, cdkProps>>

CreateGraphWidgetCall(mf, props) ==
    /\ factoryCall.op = "none"
    /\ factoryCall' =
         [op |-> "createGraphWidget", timePeriod |-> mf.timePeriod,
          input |-> props, threw |-> FALSE,
          output |-> createGraphWidget(mf, props)]
    /\ UNCHANGED <<dydbTables, lambdas, widgets, queues, apiMethods, apiGateways,
                   snsTopics, rows, phase, lastOp, sinkWrites, aspect, call,
                   pass, traversal, cdkProps>>

CreateMetricSetCall(mf, namespace, metricNames, dimensions) ==
    /\ factoryCall.op = "none"
    /\ factoryCall' =
         [op |-> "createMetricSet", timePeriod |-> mf.timePeriod,
          input |-> [namespace |-> namespace, metricNames |-> metricNames,
                     dimensions |-> dimensions],
          threw |-> createMetricSetFaults(namespace, metricNames, dimensions),
          output |-> IF createMetricSetFaults(namespace, metricNames, dimensions)
                     THEN Undef
                     ELSE createMetricSet(namespace, metricNames, dimensions)]
    /\ UNCHANGED <<dydbTables, lambdas, widgets, queues, apiMethods, apiGateways,
                   snsTopics, rows, phase, lastOp, sinkWrites, aspect, call,
                   pass, traversal, cdkProps>>

-----------------------------------------------------------------------------
(* Specifications.                                                         *)

\* No aspect traversal under way.
NoTraversal == [order |-> <<>>, pos |-> 0]

\* CdkDashboard over one traversal.
Init ==
    /\ CdkInit
    /\ cdkProps \in PropsInputs
    /\ factoryCall = NoFactoryCall
    /\ aspect = NewAspect(EmptyOptions)
    /\ call = NoCall
    /\ pass = NoPass
    /\ traversal = NoTraversal

Next ==
    \/ \E node \in NodeInputs, faultAt \in 0..1 : Visit(node, faultAt)
    \/ \E ws \in AddWidgetsInputs : AddWidgets(ws)
    \/ TraversalComplete

Spec == Init /\ [][Next]_vars

\* DashboardAspect with its completion aspect.
InitAspect ==
    /\ CdkInit
    /\ cdkProps = NoProps
    /\ factoryCall = NoFactoryCall
    /\ AspectInit
    /\ call = NoCall
    /\ pass = NoPass
    /\ traversal = NoTraversal

NextAspect ==
    \/ \E node \in AspectNodeInputs : AspectVisit(node)
    \/ \E faultAt \in 0..MaxFaultAt : GenerateDashboard(faultAt)
    \/ \E node \in AspectNodeInputs : CompletionVisit(node)

SpecAspect == InitAspect /\ [][NextAspect]_vars

\* The providers and the assembly pass applied to fixed inputs.
InitProviders ==
    /\ CdkInit
    /\ cdkProps = NoProps
    /\ factoryCall = NoFactoryCall
    /\ aspect = NewAspect(EmptyOptions)
    /\ call = NoCall
    /\ pass = NoPass
    /\ traversal = NoTraversal

NextProviders ==
    \/ \E kind \in Providers :
         \E resources \in SeqsUpTo(ResourceInputs(kind), MaxBatch) :
            CreateWidgetsCall(kind, resources)
    \/ \E snap \in SnapshotInputs : AssemblyPass(snap)

SpecProviders == InitProviders /\ [][NextProviders]_vars

\* The aspects of a scope applied by one traversal.
InitTraversal ==
    /\ CdkInit
    /\ cdkProps = NoProps
    /\ factoryCall = NoFactoryCall
    /\ TraversalInit
    /\ call = NoCall
    /\ pass = NoPass

NextTraversal == \E completionFirst \in BOOLEAN : TraverseNode(completionFirst)

SpecTraversal == InitTraversal /\ [][NextTraversal]_vars

\* MetricFactory called once on bounded inputs.
InitFactory ==
    /\ CdkInit
    /\ cdkProps = NoProps
    /\ factoryCall = NoFactoryCall
    /\ aspect = NewAspect(EmptyOptions)
    /\ call = NoCall
    /\ pass = NoPass
    /\ traversal = NoTraversal

NextFactory ==
    \/ \E mf \in FactoryInputs : \E props \in MetricPropsInputs :
         CreateMetricCall(mf, props)
    \/ \E mf \in FactoryInputs : \E props \in GraphWidgetPropsInputs :
         CreateGraphWidgetCall(mf, props)
    \/ \E mf \in FactoryInputs : \E namespace \in {"AWS/Lambda", "AWS/SQS"} :
         \E metricNames \in SeqsUpTo(MetricNameInputs, MaxNames) :
            \E dimensions \in DimensionInputs :
               CreateMetricSetCall(mf, namespace, metricNames, dimensions)

SpecFactory == InitFactory /\ [][NextFactory]_vars

\* The visit methods of the two visitors, one visitor in use per behaviour.
InitVisitors ==
    /\ CdkInit
    /\ cdkProps = NoProps
    /\ factoryCall = NoFactoryCall
    /\ AspectInit
    /\ call = NoCall
    /\ pass = NoPass
    /\ traversal = NoTraversal

NextVisitors ==
    \/ \E node \in NodeInputs, faultAt \in 0..1 :
         Len(aspect.seen) = 0 /\ Visit(node, faultAt)
    \/ \E node \in AspectNodeInputs :
         lastOp = "new" /\ AspectVisit(node)

SpecVisitors == InitVisitors /\ [][NextVisitors]_vars

-----------------------------------------------------------------------------
(* Properties.                                                             *)

Range(f) == { f[i] : i \in DOMAIN f }

TitleOf(w) == IF "title" \in DOMAIN w THEN w.title ELSE ""

Titles(ws) == [i \in 1..Len(ws) |-> TitleOf(ws[i])]

Occurrences(ws, title) == Cardinality({ i \in 1..Len(ws) : TitleOf(ws[i]) = title })

\* The widgets of one kind: none when nothing of the kind was collected.
KindWidgets(kind, collection) ==
    IF collection = <<>> THEN <<>>
    ELSE CreateWidgets(kind, serviceMetrics.metricFactory, collection)

\* Table, Function, Queue, HttpApi, HttpMethod, Topic.
AutoInKindOrder ==
    KindWidgets("DynamoDB", dydbTables) \o KindWidgets("Lambda", lambdas)
    \o KindWidgets("SQS", queues) \o KindWidgets("ApiGateway", apiGateways)
    \o KindWidgets("ApiMethod", apiMethods) \o KindWidgets("SNS", snsTopics)

\* The published list behind the custom widgets.
AutoPart == SubSeq(Published(rows), Len(widgets) + 1, Len(Published(rows)))

\* C1: when the last call on the CdkDashboard was a visit of a supported
\* node, the auto-discovered part of the published list is the widgets of
\* the non-empty kinds in the order Table, Function, Queue, HttpApi,
\* HttpMethod, Topic, whatever order the resources were visited in.
C1_FixedKindOrder ==
    lastOp = "visit" =>
        /\ Len(Published(rows)) >= Len(widgets)
        /\ AutoPart = AutoInKindOrder

\* One Function and one Table behind a custom widget: 4 Table widgets, then
\* 4 Function widgets.
C1_Witness ==
    /\ lastOp = "visit"
    /\ Len(lambdas) = 1 /\ Len(dydbTables) = 1 /\ Len(widgets) = 1
    /\ Len(AutoPart) = 8
    /\ Titles(AutoPart) =
         << "DynamoDB - Capacity Units", "DynamoDB - Throttle Events",
            "DynamoDB - Query Latency", "DynamoDB - Scan Latency",
            "Lambda - Invocations", "Lambda - Duration (ms)",
            "Lambda - Errors", "Lambda - Throttles" >>

\* C2: once the traversal has completed, the published list starts with
\* every registered custom widget, in registration order, whether it was
\* registered before or after the traversal.
C2_CustomWidgetsAhead ==
    phase = "complete" =>
        /\ Len(Published(rows)) >= Len(widgets)
        /\ SubSeq(Published(rows), 1, Len(widgets)) = widgets

\* C3: at the step that completes the traversal, every widget passed to
\* addWidgets so far is in the published list, also when no supported node
\* was visited.
C3_CustomWidgetContained ==
    [][ (phase = "collecting" /\ phase' = "complete")
          => \A i \in 1..Len(widgets') : widgets'[i] \in Range(Published(rows')) ]_vars

\* C4: when the traversal has completed over a scope with at least one
\* supported node, the published list is non-empty and holds the widgets of
\* every kind that was discovered.
C4_DiscoveredKindsPublished ==
    (phase = "complete" /\ Collected > 0) =>
        /\ Published(rows) /= <<>>
        /\ Range(AutoInKindOrder) \subseteq Range(Published(rows))

C4_Witness ==
    /\ phase = "complete"
    /\ snsTopics /= <<>> /\ lambdas /= <<>>
    /\ Occurrences(Published(rows), "SNS - Published Messages") = 1
    /\ Occurrences(Published(rows), "Lambda - Invocations") = 1

\* C5: createWidgets of each of the six providers returns the empty list
\* for the empty resource list.
C5_EmptyInEmptyOut ==
    (call.n > 0 /\ call.input = <<>>) => call.output = <<>>

C5_Witness ==
    call.n > 0 /\ call.kind = "SNS" /\ call.input = <<>> /\ call.output = <<>>

KindTitle ==
    [ dydbTables |-> "DynamoDB - Capacity Units", lambdas |-> "Lambda - Invocations",
      queues |-> "SQS - Messages Sent", apiGateways |-> "API Gateway - Request Count",
      apiMethods |-> "API Gateway Method - Request Count",
      snsTopics |-> "SNS - Published Messages" ]

CollectionOf ==
    [ dydbTables |-> dydbTables, lambdas |-> lambdas, queues |-> queues,
      apiGateways |-> apiGateways, apiMethods |-> apiMethods, snsTopics |-> snsTopics ]

\* The rows one assembly pass over the collections builds on an empty
\* dashboard, with the first k custom widgets.
SinglePass(k) ==
    Rebuild(<<>>, 0, SubSeq(widgets, 1, k), dydbTables, lambdas, queues,
            apiGateways, apiMethods, snsTopics)

\* C7: after any visits, none of them faulting, the published list is the
\* list one assembly pass over the collections as they are now produces
\* (with the custom widgets registered by the last rebuild): one widget group
\* for each non-empty kind, none for an empty kind, nothing of an earlier
\* pass.
C7_RegenerationSupersedes ==
    (Collected > 0 /\ phase /= "aborted") =>
        /\ \E k \in 0..Len(widgets) : rows = SinglePass(k)
        /\ \A kind \in DOMAIN KindTitle :
              Occurrences(Published(rows), KindTitle[kind]) =
                  IF CollectionOf[kind] = <<>> THEN 0 ELSE 1

C7_Witness ==
    /\ lastOp = "visit" /\ Len(lambdas) = 2 /\ sinkWrites = 2
    /\ Len(rows) = 1 /\ Len(Published(rows)) = 4
    /\ Len(Published(rows)[1].metrics) = 2

\* The complete widget list of the aspect's collections, in the order
\* generateDashboard builds it.
AspectCompleteList(a) == Flatten(BlockCalls(AspectBlocks(a)))

\* C8: every step leaves each dashboard with the list it had or with the
\* complete list of the collections, also a step in which a dashboard write
\* faults.
C8_AtomicReplace ==
    [][ /\ \/ Published(rows') = Published(rows)
           \/ Published(rows') = widgets' \o AutoInKindOrder'
        /\ \/ Published(aspect'.rows) = Published(aspect.rows)
           \/ Published(aspect'.rows) = AspectCompleteList(aspect') ]_vars

\* C9: nothing is published while the traversal runs, and one
\* traversal publishes once.
C9_PublishedOnceAfterTraversal ==
    /\ phase = "collecting" => sinkWrites = 0
    /\ sinkWrites <= 1

\* The kinds DashboardAspect collects.
AspectKinds ==
    { [flag |-> "includeLambda", cfn |-> "lambda.Function",
       collection |-> "lambdaFunctions", method |-> "createLambdaWidgets",
       titles |-> {"Lambda - Invocations", "Lambda - Duration (ms)",
                   "Lambda - Errors", "Lambda - Throttles"}],
      [flag |-> "includeApiGateway", cfn |-> "apigateway.RestApi",
       collection |-> "restApis", method |-> "createApiGatewayWidgets",
       titles |-> {"API Gateway - Request Count", "API Gateway - Latency (ms)",
                   "API Gateway - 4XX Errors", "API Gateway - 5XX Errors"}],
      [flag |-> "includeDynamoDB", cfn |-> "dynamodb.Table",
       collection |-> "dynamoTables", method |-> "createDynamoDBWidgets",
       titles |-> {"DynamoDB - Capacity Units", "DynamoDB - Throttle Events",
                   "DynamoDB - Query Latency", "DynamoDB - Scan Latency"}],
      [flag |-> "includeSNS", cfn |-> "sns.Topic",
       collection |-> "snsTopics", method |-> "createSNSWidgets",
       titles |-> {"SNS - Published Messages", "SNS - Notifications Delivered",
                   "SNS - Notifications Failed"}],
      [flag |-> "includeSQS", cfn |-> "sqs.Queue",
       collection |-> "sqsQueues", method |-> "createSQSWidgets",
       titles |-> {"SQS - Messages Sent", "SQS - Messages Received",
                   "SQS - Visible Messages", "SQS - Age of Oldest Message (seconds)"}] }

\* The visited constructs that have the shape of the kind, in visit order.
SeenOfKind(K) ==
    SelectSeq(aspect.seen, LAMBDA n : n.cls /= "Object" /\ tryGetResource(n, K.cfn))

\* C10: for a kind whose inclusion flag is false the aspect collects
\* nothing, never calls the kind's createWidgets and publishes no widget of
\* the kind; the collection of every other kind holds every visited
\* construct of its shape.
C10_DisabledKindExcluded ==
    \A K \in AspectKinds :
        IF Included(aspect.options, K.flag)
        THEN aspect[K.collection] = SeenOfKind(K)
        ELSE /\ aspect[K.collection] = <<>>
             /\ K.method \notin aspect.invoked
             /\ \A w \in Range(Published(aspect.rows)) : TitleOf(w) \notin K.titles

\* SNS disabled, a topic and a function visited, the dashboard generated.
C10_Witness ==
    /\ ~Included(aspect.options, "includeSNS")
    /\ \E i \in 1..Len(aspect.seen) : aspect.seen[i].cls = "Topic"
    /\ aspect.dashboardGenerated
    /\ Len(aspect.lambdaFunctions) = 1
    /\ aspect.invoked = {"createLambdaWidgets"}
    /\ Len(Published(aspect.rows)) = 4

\* The per-kind collections of the aspect.
AspectCollections(a) ==
    <<a.lambdaFunctions, a.restApis, a.dynamoTables, a.snsTopics, a.sqsQueues>>

\* C11: a generateDashboard call made when the dashboard has been generated
\* returns without error and leaves the dashboard rows, the per-kind
\* collections and the generated flag as they were.
C11_DuplicateFinalizeNoop ==
    [][ (aspect.dashboardGenerated /\ aspect'.generateCalls = aspect.generateCalls + 1)
          => /\ aspect'.rows = aspect.rows
             /\ AspectCollections(aspect') = AspectCollections(aspect)
             /\ aspect'.invoked = aspect.invoked
             /\ aspect'.dashboardGenerated
             /\ lastOp' = "generateDashboardNoop" ]_vars

\* A second generateDashboard call has returned on a generated, non-empty
\* dashboard.
C11_Witness ==
    /\ lastOp = "generateDashboardNoop"
    /\ aspect.generateCalls = 2
    /\ Len(Published(aspect.rows)) = 4

\* C12: a visit made when the dashboard has been generated changes none of
\* the per-kind collections and builds or publishes no widget.
C12_VisitAfterFinalizeIgnored ==
    [][ (aspect.dashboardGenerated /\ Len(aspect'.seen) = Len(aspect.seen) + 1)
          => /\ AspectCollections(aspect') = AspectCollections(aspect)
             /\ aspect'.rows = aspect.rows
             /\ aspect'.invoked = aspect.invoked ]_vars

\* C13: in a traversal that reaches a node before its children, the run of
\* generateDashboard that sets dashboardGenerated is made when
\* DashboardAspect.visit has seen every node of the traversal.
C13_EffectiveRunIsLast ==
    [][ (~aspect.dashboardGenerated /\ aspect'.dashboardGenerated)
          => Len(aspect'.seen) = Len(traversal.order) ]_vars

\* C14: one visit appends the visited node to at most one per-kind
\* collection, in CdkDashboard.visit and in DashboardAspect.visit.
C14_AtMostOneCollection ==
    [][ /\ Collected' <= Collected + 1
        /\ SumLen(AspectCollections(aspect')) <= SumLen(AspectCollections(aspect)) + 1 ]_vars

\* The collections of CdkDashboard by field name.
CdkCollections ==
    [dydbTables |-> dydbTables, lambdas |-> lambdas, queues |-> queues,
     apiMethods |-> apiMethods, snsTopics |-> snsTopics, apiGateways |-> apiGateways]

\* C15 as stated: every collected node is in the collection of the first
\* kind it matches in the order Function, HttpApi, HttpMethod, Table, Topic,
\* Queue.
C15_FunctionFirstOrder ==
    \A c \in DOMAIN CdkCollections :
        \A i \in 1..Len(CdkCollections[c]) :
            FunctionFirstClassify(CdkCollections[c][i]) = c

\* C15 as amended: every collected node is in the collection of the first
\* kind it matches in the order Table, Function, Queue, HttpMethod, Topic,
\* HttpApi, so a node matching an earlier kind is in no later collection.
C15_TableFirstOrder ==
    /\ \A i \in 1..Len(dydbTables) : isDynamoDBTable(dydbTables[i])
    /\ \A i \in 1..Len(lambdas) :
          isLambdaFunction(lambdas[i]) /\ ~isDynamoDBTable(lambdas[i])
    /\ \A i \in 1..Len(queues) :
          /\ isQueue(queues[i])
          /\ ~isDynamoDBTable(queues[i]) /\ ~isLambdaFunction(queues[i])
    /\ \A i \in 1..Len(apiMethods) :
          /\ isApiMethod(apiMethods[i])
          /\ ~isDynamoDBTable(apiMethods[i]) /\ ~isLambdaFunction(apiMethods[i])
          /\ ~isQueue(apiMethods[i])
    /\ \A i \in 1..Len(snsTopics) :
          /\ isSnsTopic(snsTopics[i])
          /\ ~isDynamoDBTable(snsTopics[i]) /\ ~isLambdaFunction(snsTopics[i])
          /\ ~isQueue(snsTopics[i]) /\ ~isApiMethod(snsTopics[i])
    /\ \A i \in 1..Len(apiGateways) :
          /\ isApiGateway(apiGateways[i])
          /\ ~isDynamoDBTable(apiGateways[i]) /\ ~isLambdaFunction(apiGateways[i])
          /\ ~isQueue(apiGateways[i]) /\ ~isApiMethod(apiGateways[i])
          /\ ~isSnsTopic(apiGateways[i])

\* A node of function and table shape sits with the tables, a node of topic
\* and REST API shape with the topics.
C15_Witness ==
    /\ \E i \in 1..Len(dydbTables) : isLambdaFunction(dydbTables[i])
    /\ \E i \in 1..Len(snsTopics) : isApiGateway(snsTopics[i])
    /\ lambdas = <<>> /\ apiGateways = <<>>

\* The functions of a list that have an identity.
ValidFunctions(functions) == SelectSeq(functions, LAMBDA f : f.functionName /= Undef)

\* C16: createWidgets of the Lambda provider on a non-empty list returns its
\* four widgets, each holding exactly one metric per function that has a
\* functionName and no metric of a function without one.
C16_FaultyFunctionIsolated ==
    (call.n > 0 /\ call.kind = "Lambda" /\ call.input /= <<>>)
        => /\ Len(call.output) = 4
           /\ \A i \in 1..Len(call.output) :
                 /\ Len(call.output[i].left) = Len(ValidFunctions(call.input))
                 /\ \A j \in 1..Len(call.output[i].left) :
                       call.output[i].left[j].dimensionsMap.FunctionName /= Undef

\* One of two functions has no functionName and every widget holds one metric.
C16_Witness ==
    /\ call.n > 0 /\ call.kind = "Lambda" /\ Len(call.input) = 2
    /\ call.input[1].functionName = Undef /\ call.input[2].functionName /= Undef
    /\ Len(call.output) = 4
    /\ \A i \in 1..4 : Len(call.output[i].left) = 1

\* The identity dimensions the provider of a kind gives the metrics of
\* resource r; lambdaFallback is the value used for a function without a
\* functionName.
IdentityDims(kind, r, lambdaFallback) ==
    CASE kind = "Lambda" ->
           [FunctionName |-> JsOr(r.functionName, lambdaFallback)]
      [] kind = "ApiGateway" -> [ApiName |-> JsOr(r.restApiName, "unknown-api")]
      [] kind = "ApiMethod" -> [ApiName |-> JsOr(r.path, "unknown-api"),
                                Method |-> JsOr(r.httpMethod, "unknown-method")]
      [] kind = "DynamoDB" -> [TableName |-> JsOr(r.tableName, "unknown-table")]
      [] kind = "SNS" -> [TopicName |-> JsOr(r.topicName, "unknown-topic")]
      [] kind = "SQS" -> [QueueName |-> JsOr(r.queueName, "unknown-queue")]

\* Every accumulator of the last call holds one metric per resource of rs, in
\* order, carrying the identity dimensions of that resource.
OneMetricPerResource(rs, lambdaFallback) ==
    \A g \in DOMAIN call.acc :
        /\ Len(call.acc[g]) = Len(rs)
        /\ \A j \in 1..Len(rs) :
              LET dims == IdentityDims(call.kind, rs[j], lambdaFallback)
              IN \A k \in DOMAIN dims : call.acc[g][j].dimensionsMap[k] = dims[k]

\* The last call was given no method whose resource object is missing.
ResourcesPresent ==
    \A j \in 1..Len(call.input) :
        call.input[j].cls = "Method" => call.input[j].resource /= Undef

LambdaWidgetPlan ==
    << [title |-> "Lambda - Invocations", metricName |-> "Invocations"],
       [title |-> "Lambda - Duration (ms)", metricName |-> "Duration"],
       [title |-> "Lambda - Errors", metricName |-> "Errors"],
       [title |-> "Lambda - Throttles", metricName |-> "Throttles"] >>

\* C18: for n functions that all have a functionName the Lambda provider
\* returns the Invocations, Duration, Errors and Throttles widgets, each
\* holding n metrics, the j-th being the widget's metric of the j-th function
\* under that function's name.
C18_OneMetricPerFunction ==
    (call.n > 0 /\ call.kind = "Lambda" /\ call.input /= <<>>
        /\ ValidFunctions(call.input) = call.input)
        => /\ Len(call.output) = Len(LambdaWidgetPlan)
           /\ \A i \in 1..Len(call.output) :
                 /\ call.output[i].title = LambdaWidgetPlan[i].title
                 /\ Len(call.output[i].left) = Len(call.input)
                 /\ \A j \in 1..Len(call.input) :
                       /\ call.output[i].left[j].namespace = "AWS/Lambda"
                       /\ call.output[i].left[j].metricName = LambdaWidgetPlan[i].metricName
                       /\ call.output[i].left[j].dimensionsMap
                              = [FunctionName |-> call.input[j].functionName]

\* Two functions: the Invocations widget holds the metric of each.
C18_Witness ==
    /\ call.n > 0 /\ call.kind = "Lambda" /\ Len(call.input) = 2
    /\ call.input[1].functionName = "proc-1" /\ call.input[2].functionName = "proc-2"
    /\ Len(call.output[1].left) = 2
    /\ call.output[1].left[1].dimensionsMap.FunctionName = "proc-1"
    /\ call.output[1].left[2].dimensionsMap.FunctionName = "proc-2"

\* The metric names of a widget's metrics, in order.
MetricNames(w) == [j \in 1..Len(w.left) |-> w.left[j].metricName]

\* n copies of a value.
Repeat(v, n) == [j \in 1..n |-> v]

\* C19: for a non-empty table list the DynamoDB provider returns exactly the
\* widgets Capacity Units, Throttle Events, Query Latency and Scan Latency in
\* that order, the first two holding the read metrics of all tables followed
\* by the write metrics, the last two the latency metrics of their operation.
C19_FourTableWidgets ==
    (call.n > 0 /\ call.kind = "DynamoDB" /\ call.input /= <<>>)
        => LET n == Len(call.input)
           IN /\ Titles(call.output) =
                    << "DynamoDB - Capacity Units", "DynamoDB - Throttle Events",
                       "DynamoDB - Query Latency", "DynamoDB - Scan Latency" >>
              /\ MetricNames(call.output[1]) =
                    Repeat("ConsumedReadCapacityUnits", n)
                        \o Repeat("ConsumedWriteCapacityUnits", n)
              /\ MetricNames(call.output[2]) =
                    Repeat("ReadThrottleEvents", n) \o Repeat("WriteThrottleEvents", n)
              /\ \A j \in 1..n :
                    /\ call.output[3].left[j].dimensionsMap.Operation = "Query"
                    /\ call.output[4].left[j].dimensionsMap.Operation = "Scan"
              /\ Len(call.output[3].left) = n /\ Len(call.output[4].left) = n

\* Two tables: four widgets, four capacity metrics.
C19_Witness ==
    /\ call.n > 0 /\ call.kind = "DynamoDB" /\ Len(call.input) = 2
    /\ Len(call.output) = 4 /\ Len(call.output[1].left) = 4
    /\ Len(call.output[3].left) = 2

\* The graph widgets of a published list: those the providers built.
GraphWidgets(ws) == SelectSeq(ws, LAMBDA w : "left" \in DOMAIN w)

\* C20: every auto-generated widget on the dashboard has as period the
\* timeframe of the props, three hours when the props hold none.
C20_TimeframeIsWidgetPeriod ==
    \A w \in Range(GraphWidgets(Published(rows))) :
        w.period = IF "timeframe" \in DOMAIN cdkProps THEN cdkProps.timeframe
                   ELSE DefaultTimeframe

-----------------------------------------------------------------------------
(* MetricFactory.                                                          *)

\* The value a caller gave for a property, or the default where it gave none.
Given(props, name, default) ==
    IF name \in DOMAIN props THEN props[name] ELSE default

\* width, height, liveData and period of a widget are the caller's where
\* supplied and 24, 6, true and the factory's period where not.
WidgetDefaultsApplied(mf, props, w) ==
    /\ w.width = Given(props, "width", 24)
    /\ w.height = Given(props, "height", 6)
    /\ w.liveData = Given(props, "liveData", TRUE)
    /\ w.period = Given(props, "period", mf)
    /\ w.title = props.title

\* C21 as stated: createGraphWidget returns a widget with width, height,
\* liveData and period 24, 6, true and the factory's period where the caller
\* left them unset and the caller's values where supplied, and the plotted
\* metrics are exactly the supplied metrics sequence.
C21_PlotsSuppliedMetrics ==
    factoryCall.op = "createGraphWidget" =>
        /\ ~factoryCall.threw
        /\ WidgetDefaultsApplied(factoryCall.timePeriod, factoryCall.input,
                                 factoryCall.output)
        /\ factoryCall.output.left = factoryCall.input.metrics

\* C21: createGraphWidget returns a widget with width, height, liveData and
\* period 24, 6, true and the factory's period where the caller left them
\* unset and the caller's values where supplied; the plotted metrics are the
\* supplied metrics sequence (empty allowed) unless the caller also supplied
\* a left axis, which is then plotted in its place.
C21_PlotsMetricsUnlessLeftGiven ==
    factoryCall.op = "createGraphWidget" =>
        /\ ~factoryCall.threw
        /\ WidgetDefaultsApplied(factoryCall.timePeriod, factoryCall.input,
                                 factoryCall.output)
        /\ factoryCall.output.left =
             Given(factoryCall.input, "left", factoryCall.input.metrics)

\* A widget of two metrics built with a width and no height, and one built
\* with an explicit left axis.
C21_Witness ==
    /\ factoryCall.op = "createGraphWidget"
    /\ "left" \in DOMAIN factoryCall.input
    /\ Len(factoryCall.input.metrics) = 2
    /\ factoryCall.input.metrics[1] # factoryCall.input.metrics[2]
    /\ factoryCall.output.left # factoryCall.input.metrics
    /\ "width" \in DOMAIN factoryCall.input
    /\ "height" \notin DOMAIN factoryCall.input
    /\ factoryCall.output.width = 12
    /\ factoryCall.output.height = 6
    /\ factoryCall.timePeriod = 1440
    /\ factoryCall.output.period = 1440

\* namespace, metric name and dimensions of a metric are the caller's;
\* statistic and period are the caller's where supplied, else Average and 5.
MetricDefaultsApplied(props, m) ==
    /\ m.namespace = props.namespace
    /\ m.metricName = props.metricName
    /\ "dimensionsMap" \in DOMAIN props =>
          /\ "dimensionsMap" \in DOMAIN m
          /\ m.dimensionsMap = props.dimensionsMap
    /\ m.statistic = Given(props, "statistic", "Average")
    /\ m.period = Given(props, "period", 5)

\* C22 as stated: createMetric never fails and returns a metric with the
\* caller's namespace, name and dimensions, statistic Average and period 5
\* minutes where unset, whatever the factory's period.
C22_NeverFails ==
    factoryCall.op = "createMetric" =>
        /\ ~factoryCall.threw
        /\ MetricDefaultsApplied(factoryCall.input, factoryCall.output)

-----------------------------------------------------------------------------
(* CdkDashboard: name, unmatched nodes, collections.                       *)

\* C24: a CdkDashboard constructed without a dashboardName publishes under
\* the literal 'CdkDashboard', and one constructed with a dashboardName
\* publishes under exactly that name.
C24_PublishedName ==
    /\ "dashboardName" \notin DOMAIN cdkProps =>
          dashboardName(cdkProps) = "CdkDashboard"
    /\ ("dashboardName" \in DOMAIN cdkProps /\ cdkProps.dashboardName # "") =>
          dashboardName(cdkProps) = cdkProps.dashboardName

\* A dashboard with a custom name that has published the widgets of a visit.
C24_Witness ==
    /\ "dashboardName" \in DOMAIN cdkProps
    /\ cdkProps.dashboardName = "custom-dashboard-name"
    /\ dashboardName(cdkProps) = "custom-dashboard-name"
    /\ lastOp = "visit"
    /\ Len(rows) > 0

\* A node that passes none of the six type guards of CdkDashboard.
Unmatched(node) ==
    ~(isDynamoDBTable(node) \/ isLambdaFunction(node) \/ isQueue(node)
      \/ isApiMethod(node) \/ isSnsTopic(node) \/ isApiGateway(node))

\* C25: a CdkDashboard.visit of a node that matches no supported kind leaves
\* the six collections, the custom widget list and the published widget
\* list unchanged.
C25_UnmatchedIgnored ==
    [][ \A node \in NodeInputs, faultAt \in 0..1 :
           (Unmatched(node) /\ Visit(node, faultAt)) =>
               /\ CdkCollections' = CdkCollections
               /\ widgets' = widgets
               /\ Published(rows)' = Published(rows) ]_vars

\* An unmatched node visited when a resource is collected and published and
\* a custom widget is registered but not yet published.
C25_Witness ==
    /\ lastOp = "visitIgnored"
    /\ Collected = 1
    /\ Len(widgets) = 1
    /\ Len(Published(rows)) > 0
    /\ \A i \in 1..Len(Published(rows)) : Published(rows)[i] \notin Range(widgets)

\* C26: each per-kind collection of CdkDashboard and of DashboardAspect is
\* append-only and in discovery order: a step leaves a collection as it
\* was or is a visit that appends the visited node at its end.
C26_AppendOnly ==
    [][ /\ \A c \in DOMAIN CdkCollections :
             \/ CdkCollections'[c] = CdkCollections[c]
             \/ \E node \in NodeInputs, faultAt \in 0..1 :
                   /\ Visit(node, faultAt)
                   /\ CdkCollections'[c] = Append(CdkCollections[c], node)
        /\ \A i \in 1..Len(AspectCollections(aspect)) :
             \/ AspectCollections(aspect')[i] = AspectCollections(aspect)[i]
             \/ /\ aspect'.seen # aspect.seen
                /\ aspect' = aspectVisit(aspect, aspect'.seen[Len(aspect'.seen)])
                /\ AspectCollections(aspect')[i] =
                      Append(AspectCollections(aspect)[i],
                             aspect'.seen[Len(aspect'.seen)]) ]_vars

\* Two functions collected by DashboardAspect in the order they were visited.
C26_Witness ==
    /\ aspect.lambdaFunctions = << MkFunction("proc-1"), MkDuck("proc-2", "items-2") >>
    /\ aspect.dynamoTables = << MkDuck("proc-2", "items-2") >>
    /\ aspect.seen = aspect.lambdaFunctions

-----------------------------------------------------------------------------
(* Providers: isolation, combined widgets, widget counts.                  *)

\* A resource whose try block faults: a function without a functionName
\* (the Lambda provider has no fallback) or a method without a resource
\* object.
Faulting(kind, r) ==
    \/ kind = "Lambda" /\ r.functionName = Undef
    \/ kind = "ApiMethod" /\ r.resource = Undef

NonFaulting(kind, rs) == SelectSeq(rs, LAMBDA r : ~Faulting(kind, r))

WidgetMetricPlan(kind) ==
    CASE kind = "Lambda" ->
           << <<"Invocations">>, <<"Duration">>, <<"Errors">>, <<"Throttles">> >>
      [] kind = "ApiGateway" ->
           << <<"Count">>, <<"Latency">>, <<"4XXError">>, <<"5XXError">> >>
      [] kind = "ApiMethod" ->
           << <<"Count">>, <<"Latency">>, <<"4XXError", "5XXError">> >>
      [] kind = "DynamoDB" ->
           << <<"ConsumedReadCapacityUnits", "ConsumedWriteCapacityUnits">>,
              <<"ReadThrottleEvents", "WriteThrottleEvents">>,
              <<"SuccessfulRequestLatency">>, <<"SuccessfulRequestLatency">> >>
      [] kind = "SNS" ->
           << <<"NumberOfMessagesPublished">>, <<"NumberOfNotificationsDelivered">>,
              <<"NumberOfNotificationsFailed">> >>
      [] kind = "SQS" ->
           << <<"NumberOfMessagesSent">>, <<"NumberOfMessagesReceived">>,
              <<"ApproximateNumberOfMessagesVisible">>,
              <<"ApproximateAgeOfOldestMessage">> >>

\* Metric m is the metric called name of resource r.
MetricOf(kind, r, name, m) ==
    /\ m.metricName = name
    /\ LET dims == IdentityDims(kind, r, Undef)
       IN \A k \in DOMAIN dims : m.dimensionsMap[k] = dims[k]

\* C28: a combined widget holds its groups one after the other, not
\* interleaved, and every group in resource input order: with n resources
\* built, the Error Rate widget holds the n 4XX metrics then the n 5XX
\* metrics, Capacity Units and Throttle Events the n read metrics then the
\* n write metrics, and every other widget its n metrics in input order.
C28_GroupsConcatenated ==
    (call.n > 0 /\ call.input /= <<>>) =>
        LET rs == NonFaulting(call.kind, call.input)
            n == Len(rs)
            plan == WidgetMetricPlan(call.kind)
        IN /\ Len(call.output) = Len(plan)
           /\ \A w \in 1..Len(plan) :
                 /\ Len(call.output[w].left) = n * Len(plan[w])
                 /\ \A g \in 1..Len(plan[w]) : \A j \in 1..n :
                       MetricOf(call.kind, rs[j], plan[w][g],
                                call.output[w].left[(g - 1) * n + j])

\* GET / and POST /items: the Error Rate widget holds 4XX of /, 4XX of
\* /items, 5XX of /, 5XX of /items.
C28_Witness ==
    /\ call.n > 0 /\ call.kind = "ApiMethod"
    /\ call.input = << MkMethod("GET", "/"), MkMethod("POST", "/items") >>
    /\ Len(call.output[3].left) = 4
    /\ call.output[3].left[2].metricName = "4XXError"
    /\ call.output[3].left[2].dimensionsMap.ApiName = "/items"
    /\ call.output[3].left[3].metricName = "5XXError"
    /\ call.output[3].left[3].dimensionsMap.ApiName = "/"

\* The number of widgets each kind contributes once it has a resource.
WidgetsPerKind ==
    [lambdas |-> 4, apiGateways |-> 4, apiMethods |-> 3, dydbTables |-> 4,
     snsTopics |-> 3, queues |-> 4]

RECURSIVE SumOver(_, _)
SumOver(f, S) ==
    IF S = {} THEN 0
    ELSE LET x == CHOOSE y \in S : TRUE IN f[x] + SumOver(f, S \ {x})

\* C29: after a visit of a supported node the published list holds the
\* registered custom widgets and, for every kind with a collected resource,
\* that kind's fixed number of widgets (Function 4, HttpApi 4, HttpMethod 3,
\* Table 4, Topic 3, Queue 4), however many resources the kind has.
C29_WidgetCountPerKind ==
    lastOp = "visit" =>
        Len(Published(rows)) =
            Len(widgets)
            + SumOver(WidgetsPerKind,
                      { c \in DOMAIN CdkCollections : Len(CdkCollections[c]) > 0 })

\* One function and one table and no custom widget: eight widgets.
C29_Witness ==
    /\ lastOp = "visit"
    /\ Len(lambdas) = 1 /\ Len(dydbTables) = 1 /\ Len(widgets) = 0
    /\ Len(Published(rows)) = 8

-----------------------------------------------------------------------------
(* DashboardAspect: a generateDashboard call that faulted and is retried.  *)

\* C30: whatever the sequence of visit and generateDashboard calls, one
\* that has a dashboard write fault part-way and generateDashboard called
\* again included, no widget of a kind is on the dashboard twice.
C30_KindWidgetsAddedOnce ==
    \A i, j \in 1..Len(Published(aspect.rows)) :
        TitleOf(Published(aspect.rows)[i]) = TitleOf(Published(aspect.rows)[j])
            => i = j

=============================================================================
